---- MODULE Spec2Model ----
(***************************************************************************)
(* Model of the wa-group-summary-bot backend:                              *)
(*   - the topic ingestion handler  (src/src/api/load_custom_topics_api.py)*)
(*   - the embedding adapter        (src/src/utils/bedrock_embed_text.py)  *)
(*   - the group administration handlers (src/src/api/setup_api.py)        *)
(* Handlers are split into steps at their await points.                    *)
(***************************************************************************)
EXTENDS Integers, Sequences, FiniteSets, TLC

\* ------------------------------------------------------------------ bounds
MaxTopics == 2      \* longest submitted topic list
MaxRuns == 2        \* ingestion requests served in one behaviour
MaxBatch == 2       \* longest update_groups batch
MaxStrLen == 4      \* longest string fed to the identifier derivation

\* ------------------------------------------------------------ value universes
KnownJids == {"g1", "g2"}                 \* groups present in the registry
AllJids == KnownJids \cup {"gX"}          \* "gX" is never in the registry
GroupName == [j \in KnownJids |-> IF j = "g1" THEN "Alpha" ELSE "Beta"]

\* CustomTopic values a request may carry (two of them share a subject).
TopicValues ==
  { [subject |-> "A", summary |-> "s1"],
    [subject |-> "A", summary |-> "s2"],
    [subject |-> "B", summary |-> "s1"] }

\* GroupUpdate values a batch may carry: an existing and an unknown group.
UpdateValues == [group_jid : {"g1", "gX"}, managed : BOOLEAN]

\* Concurrent administration requests, one per client.
Clients == {"c1", "c2"}

\* Characters of the strings fed to the identifier derivation on its own:
\* a letter, the separator, and a digit as str(datetime) produces them.
Alphabet == {"a", "_", "0"}
IdTimes == {0, 1}

\* ------------------------------------------------------------------ helpers
Min(a, b) == IF a <= b THEN a ELSE b

SeqsUpTo(S, n) == UNION { [1 .. k -> S] : k \in 0 .. n }

Range(s) == { s[i] : i \in DOMAIN s }

EmptyTable == [x \in {} |-> x]

Put(f, k, v) == [x \in DOMAIN f \cup {k} |-> IF x = k THEN v ELSE f[x]]

RECURSIVE Join(_)
Join(s) == IF s = <<>> THEN "" ELSE Head(s) \o Join(Tail(s))

\* All strings over Alphabet of length at most n.
Strings(n) == { Join(s) : s \in SeqsUpTo(Alphabet, n) }

\* ------------------------------------------------------------------ state
VARIABLES
  registry,           \* committed Group table: group_jid -> [group_name, managed]
  kb,                 \* committed KBTopic table: id -> row
  now,                \* the wall clock datetime.now() reads
  \* --- the ingestion handler (load_custom_topics_api)
  ipc,                \* its position
  runs,               \* ingestion requests accepted so far
  topics,             \* request body
  group_list,         \* result of the managed-groups query
  topics_embeddings,  \* result of the embedding call
  start_time,         \* the run timestamp
  gidx,               \* index of the next group of the fan-out loop
  total_loaded,       \* running count of built records
  built,              \* every KBTopicCreate built in this run, in order
  pending,            \* rows upserted in the session's open transaction
  embed_calls,        \* calls of bedrock_embed_text in this run
  response,           \* the returned body
  result,             \* "none" | "returned" | "raised"
  failed_at,          \* "none" | "embed" | "upsert" | "commit"
  kb_before,          \* kb when the run started
  \* --- the administration handlers (toggle_group, update_groups)
  cpc, creq, csess, cidx, cresp, log,
  \* --- the identifier derivation on free inputs
  id_in, id_out

ingest_vars == <<ipc, runs, topics, group_list, topics_embeddings, start_time,
                 gidx, total_loaded, built, pending, embed_calls, response,
                 result, failed_at, kb_before>>
admin_vars == <<cpc, creq, csess, cidx, cresp, log>>
id_vars == <<id_in, id_out>>
vars == <<registry, kb, now, ingest_vars, admin_vars, id_vars>>

\* ------------------------------------------------ identifier derivation
\* str(datetime): digits and punctuation, never the "_" separator.
str(t) == ToString(t)

\* f"{group.group_jid}_{start_time}_{topic.subject}"
IdPreimage(group_jid, t, subject) == group_jid \o "_" \o str(t) \o "_" \o subject

\* hashlib.sha256(...).hexdigest(), taken as collision-free: the digest is
\* represented by the text it was computed from.
sha256(text) == <<"sha256", text>>

derive_id(group_jid, t, subject) == sha256(IdPreimage(group_jid, t, subject))

\* ------------------------------------------------ embedding adapter
\* One Titan invocation: the vector is opaque and determined by the text.
invoke_model(text) == <<"titan-embed-text-v2", text>>

\* BedrockEmbeddingClient._embed_sync: one invocation per text, in order.
embed_sync(texts) == [i \in 1 .. Len(texts) |-> invoke_model(texts[i])]

\* bedrock_embed_text -> BedrockEmbeddingClient.embed
bedrock_embed_text(input) == embed_sync(input)

\* ------------------------------------------------ ingestion: pure parts
\* f"# {topic.subject}\n{topic.summary}"
Document(topic) == "# " \o topic.subject \o "\n" \o topic.summary

documents(ts) == [i \in 1 .. Len(ts) |-> Document(ts[i])]

\* zip(topics, topics_embeddings)
Zip(a, b) == [i \in 1 .. Min(Len(a), Len(b)) |-> <<a[i], b[i]>>]

KBTopicCreate(group, topic, emb, t) ==
  [ id         |-> derive_id(group.group_jid, t, topic.subject),
    embedding  |-> emb,
    group_jid  |-> group.group_jid,
    start_time |-> t,
    speakers   |-> "",
    summary    |-> topic.summary,
    subject    |-> topic.subject ]

\* Variant: every record takes the first vector of the batch.
doc_models_FirstVector(group, ts, embs, t) ==
  [ i \in 1 .. Len(Zip(ts, embs)) |->
      KBTopicCreate(group, Zip(ts, embs)[i][1], embs[1], t) ]

doc_models(group, ts, embs, t) ==
  [ i \in 1 .. Len(Zip(ts, embs)) |->
      KBTopicCreate(group, Zip(ts, embs)[i][1], Zip(ts, embs)[i][2], t) ]

\* A Group row as the ORM loads it.
GroupRow(reg, j) ==
  [group_jid |-> j, group_name |-> reg[j].group_name, managed |-> reg[j].managed]

\* select(Group).where(Group.managed == True): the rows, in any order (the
\* query has no ORDER BY).
ManagedGroups(reg) ==
  LET rows == { GroupRow(reg, j) : j \in { k \in DOMAIN reg : reg[k].managed } }
  IN  { gl \in [1 .. Cardinality(rows) -> rows] :
          \A i, k \in DOMAIN gl : i # k => gl[i] # gl[k] }

\* models.upsert.bulk_upsert: insert, overwrite on id conflict, in row order.
RECURSIVE bulk_upsert(_, _)
bulk_upsert(table, rows) ==
  IF rows = <<>> THEN table
  ELSE bulk_upsert(Put(table, Head(rows).id, Head(rows)), Tail(rows))

\* session.commit(): the open transaction's rows become durable together.
CommitRows(table, rows) == [x \in DOMAIN table \cup DOMAIN rows |->
                              IF x \in DOMAIN rows THEN rows[x] ELSE table[x]]

\* Variant: the empty case answered as a zero-count success.
NoGroupsResponse_ZeroSuccess ==
  [ status |-> "success", message |-> "Loaded 0 topics for 0 groups",
    topics_count |-> 0, groups_count |-> 0, total_records |-> 0 ]

NoGroupsResponse == [status |-> "error", message |-> "No managed groups found"]

SuccessResponse(ts, groups, total) ==
  [ status        |-> "success",
    message       |-> "Loaded " \o ToString(Len(ts)) \o " topics for "
                        \o ToString(Len(groups)) \o " groups",
    topics_count  |-> Len(ts),
    groups_count  |-> Len(groups),
    total_records |-> total ]

\* ------------------------------------------------ ingestion: handler steps
NoResponse == [status |-> "none"]

\* Variant: the early return is missing.
NoGroups_Never(gl) == FALSE

\* `if not group_list:` -- the early return is taken.
NoGroups(gl) == gl = <<>>

\* Variant: the exception is logged and swallowed.
HandlerExcept_Swallowed == "returned"

\* `except Exception as e: logger.error(...); raise`
HandlerExcept == "raised"

\* Variant: each group's rows are committed inside the loop.
KbDuringLoop_CommitEach(table, rows) == CommitRows(table, rows)

\* The durable table while the fan-out loop runs: bulk_upsert writes into the
\* session's open transaction, nothing is committed inside the loop.
KbDuringLoop(table, rows) == table

\* POST /load_custom_topics arrives; the request-scoped session is opened.
IngestRequest ==
  /\ ipc \in {"idle", "done"}
  /\ runs < MaxRuns
  /\ \E ts \in SeqsUpTo(TopicValues, MaxTopics) : topics' = ts
  /\ runs' = runs + 1
  /\ ipc' = "select"
  /\ group_list' = <<>>
  /\ topics_embeddings' = <<>>
  /\ start_time' = -1
  /\ gidx' = 0
  /\ total_loaded' = 0
  /\ built' = <<>>
  /\ pending' = EmptyTable
  /\ embed_calls' = 0
  /\ response' = NoResponse
  /\ result' = "none"
  /\ failed_at' = "none"
  /\ kb_before' = kb
  /\ UNCHANGED <<registry, kb, now, admin_vars, id_vars>>

\* The managed-groups query and the early return.
SelectManaged ==
  /\ ipc = "select"
  /\ group_list' \in ManagedGroups(registry)
  /\ IF NoGroups(group_list')
       THEN /\ response' = NoGroupsResponse
            /\ result' = "returned"
            /\ ipc' = "done"
       ELSE /\ ipc' = "embed"
            /\ UNCHANGED <<response, result>>
  /\ UNCHANGED <<registry, kb, now, runs, topics, topics_embeddings, start_time,
                 gidx, total_loaded, built, pending, embed_calls, failed_at,
                 kb_before, admin_vars, id_vars>>

\* The embedding call returns; the run timestamp is captured.
Embed ==
  /\ ipc = "embed"
  /\ topics_embeddings' = bedrock_embed_text(documents(topics))
  /\ embed_calls' = embed_calls + 1
  /\ total_loaded' = 0
  /\ start_time' = now
  /\ now' = now + 1
  /\ gidx' = 1
  /\ ipc' = IF Len(group_list) >= 1 THEN "upsert" ELSE "commit"
  /\ UNCHANGED <<registry, kb, runs, topics, group_list, built, pending,
                 response, result, failed_at, kb_before, admin_vars, id_vars>>

\* The embedding call raises (network, quota, malformed response).
EmbedFail ==
  /\ ipc = "embed"
  /\ embed_calls' = embed_calls + 1
  /\ failed_at' = "embed"
  /\ result' = HandlerExcept
  /\ pending' = EmptyTable
  /\ ipc' = "done"
  /\ UNCHANGED <<registry, kb, now, runs, topics, group_list, topics_embeddings,
                 start_time, gidx, total_loaded, built, response, kb_before,
                 admin_vars, id_vars>>

\* One iteration of `for group in group_list`.
UpsertGroup ==
  /\ ipc = "upsert"
  /\ LET dm == doc_models(group_list[gidx], topics, topics_embeddings, start_time)
     IN  /\ built' = built \o dm
         /\ pending' = bulk_upsert(pending, dm)
         /\ total_loaded' = total_loaded + Len(dm)
  /\ kb' = KbDuringLoop(kb, pending')
  /\ gidx' = gidx + 1
  /\ ipc' = IF gidx < Len(group_list) THEN "upsert" ELSE "commit"
  /\ UNCHANGED <<registry, now, runs, topics, group_list, topics_embeddings,
                 start_time, embed_calls, response, result, failed_at,
                 kb_before, admin_vars, id_vars>>

\* bulk_upsert raises for the current group: the transaction is rolled back
\* when the session is released.
UpsertFail ==
  /\ ipc = "upsert"
  /\ built' = built \o doc_models(group_list[gidx], topics, topics_embeddings,
                                  start_time)
  /\ failed_at' = "upsert"
  /\ result' = HandlerExcept
  /\ pending' = EmptyTable
  /\ ipc' = "done"
  /\ UNCHANGED <<registry, kb, now, runs, topics, group_list, topics_embeddings,
                 start_time, gidx, total_loaded, embed_calls, response,
                 kb_before, admin_vars, id_vars>>

\* `await session.commit()` succeeds and the summary is returned.
Commit ==
  /\ ipc = "commit"
  /\ kb' = CommitRows(kb, pending)
  /\ pending' = EmptyTable
  /\ response' = SuccessResponse(topics, group_list, total_loaded)
  /\ result' = "returned"
  /\ ipc' = "done"
  /\ UNCHANGED <<registry, now, runs, topics, group_list, topics_embeddings,
                 start_time, gidx, total_loaded, built, embed_calls, failed_at,
                 kb_before, admin_vars, id_vars>>

\* `await session.commit()` raises.
CommitFail ==
  /\ ipc = "commit"
  /\ failed_at' = "commit"
  /\ result' = HandlerExcept
  /\ pending' = EmptyTable
  /\ ipc' = "done"
  /\ UNCHANGED <<registry, kb, now, runs, topics, group_list, topics_embeddings,
                 start_time, gidx, total_loaded, built, embed_calls, response,
                 kb_before, admin_vars, id_vars>>

\* ------------------------------------------------ administration: pure parts
\* Variant: the flag is switched on instead of flipped.
Toggled_SetTrue(m) == TRUE

\* `group.managed = not group.managed`
Toggled(m) == ~m

\* `except Exception: await session.rollback(); raise HTTPException(500, ...)`
FailureStatus == 500

\* Variant: without `except HTTPException: raise` the 404 is caught by the
\* general handler and answered as a failure.
NotFoundStatus_AsFailure == FailureStatus

\* `raise HTTPException(status_code=404, ...)`, re-raised by
\* `except HTTPException: raise`.
NotFoundStatus == 404

\* select(Group).where(Group.group_jid == j) ... scalar_one_or_none():
\* is there such a row?
Found(sess, reg, j) == j \in DOMAIN sess \/ j \in DOMAIN reg

\* Rows of the session whose flag differs from the value last read from or
\* sent to the database: the unit of work emits an UPDATE for these only.
Dirty(sess) == { j \in DOMAIN sess : sess[j].managed # sess[j].base }

\* A query first flushes the session: pending changes are sent to the open
\* transaction (not yet visible to other sessions).
Autoflush(sess) ==
  [ j \in DOMAIN sess |->
      IF j \in Dirty(sess)
        THEN [sess[j] EXCEPT !.base = sess[j].managed, !.flushed = TRUE]
        ELSE sess[j] ]

\* The session after that query: a row already loaded in this session keeps
\* its in-memory state (identity map); otherwise the committed row is loaded.
\* `loaded` keeps the flag as read and `ver` how many writes the row had
\* seen when it was read.
SessionLoad(sess, reg, j, ver) ==
  IF j \in DOMAIN sess \/ j \notin DOMAIN reg THEN Autoflush(sess)
  ELSE Put(Autoflush(sess), j,
           [group_name |-> reg[j].group_name,
            managed    |-> reg[j].managed,
            loaded     |-> reg[j].managed,
            base       |-> reg[j].managed,
            flushed    |-> FALSE,
            ver        |-> ver])

\* `group.managed = value; session.add(group)`
SessionSet(sess, j, value) == [sess EXCEPT ![j].managed = value]

\* Rows the session's transaction writes: flushed earlier, or changed since.
Written(sess) == { j \in DOMAIN sess : sess[j].flushed } \cup Dirty(sess)

\* Variant: the change is applied to the row as it is at commit time.
Flush_OnCurrent(reg, sess) ==
  [ j \in DOMAIN reg |->
      IF j \in Written(sess) THEN [reg[j] EXCEPT !.managed = ~reg[j].managed]
      ELSE reg[j] ]

\* `await session.commit()`: the rows the transaction wrote take the session's
\* values, whatever the committed rows hold by now.
Flush(reg, sess) ==
  [ j \in DOMAIN reg |->
      IF j \in Written(sess) THEN [reg[j] EXCEPT !.managed = sess[j].managed]
      ELSE reg[j] ]

\* The write history of each row after that commit by client c.
Logged(lg, sess, c) ==
  [ j \in DOMAIN lg |->
      IF j \in Written(sess) THEN Append(lg[j], [by |-> c, val |-> sess[j].managed])
      ELSE lg[j] ]

ToggleBody(sess, j) ==
  [group_jid |-> j, group_name |-> sess[j].group_name, managed |-> sess[j].managed]

UpdateBody(updates) == [status |-> "success", updated |-> Len(updates)]

\* ------------------------------------------------ administration: handler steps
\* POST /api/groups/{group_jid}/toggle arrives.
ToggleRequest(c) ==
  /\ cpc[c] = "idle"
  /\ \E j \in AllJids : creq' = [creq EXCEPT ![c] = [kind |-> "toggle", group_jid |-> j]]
  /\ cpc' = [cpc EXCEPT ![c] = "select"]
  /\ UNCHANGED <<registry, kb, now, ingest_vars, csess, cidx, cresp, log, id_vars>>

\* The query returns: 404 for an unknown group, else the flag is flipped in
\* the session.
ToggleSelect(c) ==
  /\ cpc[c] = "select"
  /\ LET j == creq[c].group_jid
         loadedSess == SessionLoad(csess[c], registry, j, Len(log[j]))
     IN  IF ~Found(csess[c], registry, j)
           THEN /\ cresp' = [cresp EXCEPT ![c] = [status_code |-> NotFoundStatus]]
                /\ cpc' = [cpc EXCEPT ![c] = "done"]
                /\ UNCHANGED csess
           ELSE /\ csess' = [csess EXCEPT ![c] =
                               SessionSet(loadedSess, j, Toggled(loadedSess[j].managed))]
                /\ cpc' = [cpc EXCEPT ![c] = "commit"]
                /\ UNCHANGED cresp
  /\ UNCHANGED <<registry, kb, now, ingest_vars, creq, cidx, log, id_vars>>

\* The commit succeeds and the group is returned.
ToggleCommit(c) ==
  /\ cpc[c] = "commit"
  /\ creq[c].kind = "toggle"
  /\ registry' = Flush(registry, csess[c])
  /\ log' = Logged(log, csess[c], c)
  /\ cresp' = [cresp EXCEPT ![c] =
                 [status_code |-> 200, body |-> ToggleBody(csess[c], creq[c].group_jid)]]
  /\ cpc' = [cpc EXCEPT ![c] = "done"]
  /\ UNCHANGED <<kb, now, ingest_vars, creq, csess, cidx, id_vars>>

\* POST /api/groups/update arrives.
UpdateRequest(c) ==
  /\ cpc[c] = "idle"
  /\ \E us \in SeqsUpTo(UpdateValues, MaxBatch) :
       /\ creq' = [creq EXCEPT ![c] = [kind |-> "update", updates |-> us]]
       /\ cpc' = [cpc EXCEPT ![c] = IF us = <<>> THEN "commit" ELSE "loop"]
  /\ cidx' = [cidx EXCEPT ![c] = 1]
  /\ UNCHANGED <<registry, kb, now, ingest_vars, csess, cresp, log, id_vars>>

\* One iteration of `for update in updates`: an unknown group is skipped.
UpdateStep(c) ==
  /\ cpc[c] = "loop"
  /\ LET u == creq[c].updates[cidx[c]]
         loadedSess == SessionLoad(csess[c], registry, u.group_jid,
                                   IF u.group_jid \in DOMAIN log
                                     THEN Len(log[u.group_jid]) ELSE 0)
     IN  csess' = [csess EXCEPT ![c] =
                     IF Found(csess[c], registry, u.group_jid)
                       THEN SessionSet(loadedSess, u.group_jid, u.managed)
                       ELSE loadedSess]
  /\ cidx' = [cidx EXCEPT ![c] = cidx[c] + 1]
  /\ cpc' = [cpc EXCEPT ![c] =
               IF cidx[c] < Len(creq[c].updates) THEN "loop" ELSE "commit"]
  /\ UNCHANGED <<registry, kb, now, ingest_vars, creq, cresp, log, id_vars>>

\* The commit succeeds.
UpdateCommit(c) ==
  /\ cpc[c] = "commit"
  /\ creq[c].kind = "update"
  /\ registry' = Flush(registry, csess[c])
  /\ log' = Logged(log, csess[c], c)
  /\ cresp' = [cresp EXCEPT ![c] =
                 [status_code |-> 200, body |-> UpdateBody(creq[c].updates)]]
  /\ cpc' = [cpc EXCEPT ![c] = "done"]
  /\ UNCHANGED <<kb, now, ingest_vars, creq, csess, cidx, id_vars>>

\* The commit raises: rollback, 500.
AdminCommitFail(c) ==
  /\ cpc[c] = "commit"
  /\ cresp' = [cresp EXCEPT ![c] = [status_code |-> FailureStatus]]
  /\ cpc' = [cpc EXCEPT ![c] = "done"]
  /\ UNCHANGED <<registry, kb, now, ingest_vars, creq, csess, cidx, log, id_vars>>

\* ------------------------------------------------------------------ init
InitIngest ==
  /\ kb = EmptyTable
  /\ now = 0
  /\ ipc = "idle"
  /\ runs = 0
  /\ topics = <<>>
  /\ group_list = <<>>
  /\ topics_embeddings = <<>>
  /\ start_time = -1
  /\ gidx = 0
  /\ total_loaded = 0
  /\ built = <<>>
  /\ pending = EmptyTable
  /\ embed_calls = 0
  /\ response = NoResponse
  /\ result = "none"
  /\ failed_at = "none"
  /\ kb_before = EmptyTable

InitAdmin ==
  /\ cpc = [c \in Clients |-> "idle"]
  /\ creq = [c \in Clients |-> [kind |-> "none"]]
  /\ csess = [c \in Clients |-> EmptyTable]
  /\ cidx = [c \in Clients |-> 0]
  /\ cresp = [c \in Clients |-> [status_code |-> 0]]
  /\ log = [j \in KnownJids |-> <<[by |-> "init", val |-> registry[j].managed]>>]

InitId ==
  /\ id_in = <<>>
  /\ id_out = <<>>

\* The Group table holds the discovered groups, each managed or not.
InitRegistry ==
  \E m \in [KnownJids -> BOOLEAN] :
    registry = [j \in KnownJids |-> [group_name |-> GroupName[j], managed |-> m[j]]]

Init == InitRegistry /\ InitIngest /\ InitAdmin /\ InitId

NextIngest ==
  \/ IngestRequest
  \/ SelectManaged
  \/ Embed
  \/ EmbedFail
  \/ UpsertGroup
  \/ UpsertFail
  \/ Commit
  \/ CommitFail

Spec == Init /\ [][NextIngest]_vars

NextAdmin ==
  \E c \in Clients :
    \/ ToggleRequest(c)
    \/ ToggleSelect(c)
    \/ ToggleCommit(c)
    \/ UpdateRequest(c)
    \/ UpdateStep(c)
    \/ UpdateCommit(c)
    \/ AdminCommitFail(c)

SpecGroups == Init /\ [][NextAdmin]_vars

\* ------------------------------------------------ identifier derivation alone
IdInputs == Strings(MaxStrLen) \X IdTimes \X Strings(MaxStrLen)

\* The identifier of one (group_jid, run timestamp, subject) triple is derived.
DeriveId ==
  /\ id_out = <<>>
  /\ id_in # <<>>
  /\ id_out' = derive_id(id_in[1], id_in[2], id_in[3])
  /\ UNCHANGED <<registry, kb, now, ingest_vars, admin_vars, id_in>>

InitDerive ==
  /\ registry = [j \in KnownJids |-> [group_name |-> GroupName[j], managed |-> FALSE]]
  /\ InitIngest
  /\ InitAdmin
  /\ id_in \in IdInputs
  /\ id_out = <<>>

SpecDeriveId == InitDerive /\ [][DeriveId]_vars

\* ================================================================ properties
\* ------------------------------------------------ ingestion
T == Len(topics)
G == Len(group_list)

\* A run that went through the whole pipeline and returned its summary.
RunSucceeded == ipc = "done" /\ result = "returned" /\ failed_at = "none" /\ G >= 1

\* The run found no managed group when it resolved the set.
RunFoundNoGroups == ipc = "done" /\ failed_at = "none" /\ G = 0

\* The rows this run builds for a group of its group_list.
RunRows(g) == doc_models(g, topics, topics_embeddings, start_time)

\* Some row of this run for group g is durably visible.
Visible(g) == \E i \in DOMAIN RunRows(g) : RunRows(g)[i].id \in DOMAIN kb

\* C1: a successful run with T >= 1 topics and G >= 1 managed groups builds
\* exactly T x G records whose ids are pairwise different, and reports
\* topics_count = T, groups_count = G, total_records = T x G.
C1_RecordsCountedAndDistinct ==
  (RunSucceeded /\ T >= 1) =>
     /\ Len(built) = T * G
     /\ \A i, k \in DOMAIN built : i # k => built[i].id # built[k].id
     /\ response.topics_count = T
     /\ response.groups_count = G
     /\ response.total_records = T * G

\* C2 (as claimed): with no managed group the run ends with a success result
\* that indicates zero groups and zero records.
C2_EmptyIsZeroSuccess ==
  RunFoundNoGroups =>
     /\ result = "returned"
     /\ response.status = "success"
     /\ "groups_count" \in DOMAIN response
     /\ response.groups_count = 0
     /\ "total_records" \in DOMAIN response
     /\ response.total_records = 0

\* C2 (amended): with no managed group the run returns normally, without
\* raising, a body of exactly status "error" and message "No managed groups
\* found" (no counts), having embedded nothing and written nothing.
C2_EmptyReturnsErrorBody ==
  RunFoundNoGroups =>
     /\ result = "returned"
     /\ DOMAIN response = {"status", "message"}
     /\ response.status = "error"
     /\ response.message = "No managed groups found"
     /\ embed_calls = 0
     /\ kb = kb_before

C2_Witness == RunFoundNoGroups /\ T >= 1 /\ runs = 2 /\ result = "returned"

\* C3: the Embedding Provider is invoked at most once per run: exactly once
\* when a managed group exists, however many there are, and never when the
\* managed-group set is empty.
C3_EmbedOncePerRun ==
  /\ embed_calls <= 1
  /\ (ipc \in {"upsert", "commit", "done"} /\ G >= 1) => embed_calls = 1
  /\ G = 0 => embed_calls = 0

C3_Witness == RunSucceeded /\ G = 2 /\ T = 2 /\ embed_calls = 1

\* C4: when the embedding call fails the run ends with the error raised to
\* the caller, and nothing was upserted or committed: the persisted records
\* are those from before the call.
C4_EmbedFailureWritesNothing ==
  failed_at = "embed" =>
     /\ ipc = "done"
     /\ result = "raised"
     /\ response = NoResponse
     /\ built = <<>>
     /\ pending = EmptyTable
     /\ kb = kb_before

C4_Witness == failed_at = "embed" /\ kb_before # EmptyTable /\ T >= 1

\* C5: a storage failure in the persist stage (any group's upsert, or the
\* commit) ends the run with the error raised and none of its records
\* durable; at no time are the records of some groups of a run durable while
\* those of other groups of the run are not.
C5_NoPartialCommit ==
  /\ failed_at \in {"upsert", "commit"} =>
        /\ ipc = "done"
        /\ result = "raised"
        /\ kb = kb_before
        /\ \A i \in DOMAIN built : built[i].id \notin DOMAIN kb
  /\ (start_time >= 0 /\ T >= 1) =>
        \A a, b \in Range(group_list) : Visible(a) <=> Visible(b)

C5_Witness == failed_at = "upsert" /\ gidx = 2 /\ T >= 1 /\ kb_before # EmptyTable

\* The record built for the i-th topic and the k-th group of the run.
BuiltFor(k, i) == built[(k - 1) * T + i]

\* Number of groups whose records have been built.
GroupsBuilt == IF T = 0 THEN 0 ELSE Len(built) \div T

\* C6: within a run, the records built for one topic and two different groups
\* differ in id and in group_jid, carry the same embedding, namely the i-th
\* vector of the single embedding call, and copy subject and summary verbatim.
C6_SameEmbeddingAcrossGroups ==
  /\ T >= 1 => Len(built) = GroupsBuilt * T
  /\ \A i \in 1 .. T : \A a, b \in 1 .. GroupsBuilt :
       /\ BuiltFor(a, i).group_jid = group_list[a].group_jid
       /\ BuiltFor(a, i).embedding = topics_embeddings[i]
       /\ BuiltFor(a, i).subject = topics[i].subject
       /\ BuiltFor(a, i).summary = topics[i].summary
       /\ a # b =>
            /\ BuiltFor(a, i).id # BuiltFor(b, i).id
            /\ BuiltFor(a, i).group_jid # BuiltFor(b, i).group_jid
            /\ BuiltFor(a, i).embedding = BuiltFor(b, i).embedding

C6_Witness ==
  /\ RunSucceeded /\ G = 2 /\ T = 2
  /\ topics_embeddings[1] # topics_embeddings[2]
  /\ BuiltFor(1, 2).embedding = BuiltFor(2, 2).embedding

\* ------------------------------------------------ identifier derivation
\* C7: two distinct (group_jid, timestamp, subject) triples never get the same
\* identifier, whatever characters group_jid and subject contain.
C7_DistinctTriplesDistinctIds ==
  id_out # <<>> =>
     \A other \in IdInputs :
        other # id_in => derive_id(other[1], other[2], other[3]) # id_out

\* ------------------------------------------------ group administration
\* Client c finished a toggle of group j with a 200 response.
ToggledOk(c, j) ==
  /\ cpc[c] = "done"
  /\ creq[c].kind = "toggle"
  /\ creq[c].group_jid = j
  /\ cresp[c].status_code = 200

\* Position of client c's write in the history of row j (0: it wrote nothing).
EntryOf(j, c) ==
  IF \E i \in DOMAIN log[j] : log[j][i].by = c
    THEN CHOOSE i \in DOMAIN log[j] : log[j][i].by = c
    ELSE 0

\* Each completed toggle answers with the flag it wrote, the negation of the
\* flag it read.
ToggleReportsWrite ==
  \A c \in Clients : \A j \in KnownJids :
     ToggledOk(c, j) =>
        /\ EntryOf(j, c) > 0
        /\ log[j][EntryOf(j, c)].val = cresp[c].body.managed
        /\ cresp[c].body.managed = ~csess[c][j].loaded
        /\ cresp[c].body.group_jid = j

\* C8 (as claimed): any two completed toggles of a group, with no other write
\* of the group between them, leave its flag at the value it had before the
\* first of them; each response reports the flag the toggle wrote.
C8_TwoTogglesRestore ==
  /\ ToggleReportsWrite
  /\ \A j \in KnownJids : \A p, q \in Clients :
       (ToggledOk(p, j) /\ ToggledOk(q, j) /\ EntryOf(j, q) = EntryOf(j, p) + 1) =>
          log[j][EntryOf(j, q)].val = log[j][EntryOf(j, p) - 1].val

\* C8 (amended): two toggles of a group made one after the other -- the second
\* reads the flag after the first has committed, and nothing else writes the
\* group meanwhile -- leave its flag at the value the first one read; each
\* response reports the flag the toggle wrote.
C8_SequentialTogglesRestore ==
  /\ ToggleReportsWrite
  /\ \A j \in KnownJids : \A p, q \in Clients :
       ( /\ ToggledOk(p, j) /\ ToggledOk(q, j)
         /\ EntryOf(j, p) = csess[p][j].ver + 1
         /\ csess[q][j].ver = EntryOf(j, p)
         /\ EntryOf(j, q) = csess[q][j].ver + 1 ) =>
          /\ log[j][EntryOf(j, q)].val = csess[p][j].loaded
          /\ (EntryOf(j, q) = Len(log[j]) => registry[j].managed = csess[p][j].loaded)

C8_Witness ==
  /\ ToggledOk("c1", "g1") /\ ToggledOk("c2", "g1")
  /\ EntryOf("g1", "c1") = csess["c1"]["g1"].ver + 1
  /\ csess["c2"]["g1"].ver = EntryOf("g1", "c1")
  /\ EntryOf("g1", "c2") = Len(log["g1"])
  /\ registry["g1"].managed = log["g1"][1].val

\* The flag the last entry of a batch for group j asks for.
LastValueFor(updates, j) ==
  LET idx == { i \in DOMAIN updates : updates[i].group_jid = j }
  IN  updates[CHOOSE i \in idx : \A k \in idx : k <= i].managed

Mentions(updates, j) == \E i \in DOMAIN updates : updates[i].group_jid = j

\* Client c takes a step.
Steps(c) == cpc'[c] # cpc[c]

\* C9: a request naming a group_jid absent from the registry creates, deletes
\* and modifies no group. toggle_group answers 404 and leaves the registry as
\* it is; update_groups skips the entry without failing, goes on to commit,
\* applies the batch's entries for existing groups and answers success with
\* the batch length. No update or toggle step changes the set of group_jids.
C9_UnknownGroupFrame ==
  /\ [](\A c \in Clients :
          (cpc[c] = "done" /\ creq[c].kind = "toggle"
             /\ creq[c].group_jid \notin DOMAIN registry) =>
                cresp[c].status_code = 404)
  /\ [][ /\ DOMAIN registry' = DOMAIN registry
         /\ \A j \in DOMAIN registry : registry'[j].group_name = registry[j].group_name
         /\ \A c \in Clients :
              /\ ( /\ Steps(c) /\ creq'[c].kind = "toggle"
                   /\ creq'[c].group_jid \notin DOMAIN registry ) =>
                      registry' = registry
              /\ (cpc[c] = "select" /\ Steps(c) /\ creq[c].group_jid \in DOMAIN registry) =>
                      cpc'[c] = "commit"
              /\ (cpc[c] = "loop" /\ Steps(c)) =>
                      /\ cpc'[c] \in {"loop", "commit"}
                      /\ cresp'[c] = cresp[c]
                      /\ registry' = registry
              /\ ( /\ cpc[c] = "commit" /\ Steps(c) /\ creq[c].kind = "update"
                   /\ cresp'[c].status_code = 200 ) =>
                      /\ cresp'[c].body = [status |-> "success",
                                           updated |-> Len(creq[c].updates)]
                      /\ \A j \in DOMAIN registry :
                           IF Mentions(creq[c].updates, j)
                             THEN Len(log[j]) = csess[c][j].ver =>
                                    registry'[j].managed = LastValueFor(creq[c].updates, j)
                             ELSE registry'[j] = registry[j]
       ]_vars

C9_Witness ==
  /\ cpc["c1"] = "done" /\ creq["c1"].kind = "update" /\ cresp["c1"].status_code = 200
  /\ creq["c1"].updates = <<[group_jid |-> "gX", managed |-> TRUE],
                            [group_jid |-> "g1", managed |-> TRUE]>>
  /\ log["g1"] = <<[by |-> "init", val |-> FALSE], [by |-> "c1", val |-> TRUE]>>
  /\ registry["g1"].managed
  /\ cpc["c2"] = "done" /\ creq["c2"].kind = "toggle" /\ creq["c2"].group_jid = "gX"
  /\ cresp["c2"].status_code = 404

\* The flag client c's request computes for group j from what it read.
Intended(c, j) ==
  IF creq[c].kind = "toggle" THEN ~csess[c][j].loaded
  ELSE LastValueFor(creq[c].updates, j)

\* Client c's commit is pending and can be carried out.
CanCommit(c) == ENABLED (ToggleCommit(c) \/ UpdateCommit(c))

====
